---- MODULE Spec2Model ----
(***************************************************************************)
(* A model of the accessibility graph pipeline of food-desert-analysis     *)
(* (src/src/data_processing.py): the street network as a node table and an *)
(* edge table, the nearest-grocery travel time in its two implementations, *)
(* the edge averaging, the region flags, the demographic join, the         *)
(* cleaning and the reconciliation of the two tables.                      *)
(***************************************************************************)
EXTENDS Integers, Sequences, FiniteSets, TLC

VARIABLES
    pc,        \* the next step of the run
    nodes,     \* the node table / the graph's nodes: node id -> row
    edges,     \* the edge table / the graph's edges: a set of rows (u, v, key, ...)
    node_cols, \* the columns (node attributes) that exist in the node table
    edge_cols, \* the columns (edge attributes) that exist in the edge table
    directed,  \* whether the graph object is a directed graph
    igraph,    \* the igraph argument of the last add_grocery_travel_time call
    svi,       \* the demographic polygon table: tract id -> row
    warnings,  \* the warnings emitted so far
    raised,    \* the exception that ended the run, or "none"
    args,      \* the arguments of the function called on its own
    result,    \* what that function returned
    batch,     \* the locals of batch_process_cities
    cache      \* the files of data/processed/cache, and the calls made so far

vars ==
    <<pc, nodes, edges, node_cols, edge_cols, directed, igraph, svi, warnings, raised,
      args, result, batch, cache>>

\* the state of the graph pipeline
tables == <<nodes, edges, node_cols, edge_cols, directed, igraph, svi, warnings, raised>>

(***************************************************************************)
(* Bounds of the inputs.                                                   *)
(***************************************************************************)
MaxNodes == 3
MaxEdges == 2
MaxTime == 2

(***************************************************************************)
(* Floating point values: a finite number n/d (kept in lowest terms), the  *)
(* infinity, and the missing-value marker nan.                             *)
(***************************************************************************)
inf == [k |-> "inf", n |-> 0, d |-> 1]
nan == [k |-> "nan", n |-> 0, d |-> 1]

Abs(x) == IF x < 0 THEN -x ELSE x

RECURSIVE GCD(_, _)
GCD(a, b) == IF b = 0 THEN a ELSE GCD(b, a % b)

Num(n, d) ==
    LET g == GCD(Abs(n), d)
    IN  [k |-> "num", n |-> n \div g, d |-> d \div g]

IsNum(a) == a.k = "num"

\* a + b in floating point: nan absorbs, then the infinity
fadd(a, b) ==
    IF a.k = "nan" \/ b.k = "nan" THEN nan
    ELSE IF a.k = "inf" \/ b.k = "inf" THEN inf
    ELSE Num(a.n * b.d + b.n * a.d, a.d * b.d)

\* a / c for an integer c > 0
fdiv(a, c) == IF IsNum(a) THEN Num(a.n, a.d * c) ELSE a

SetMin(S) == CHOOSE x \in S : \A y \in S : x <= y

\* Python's min over a non-empty collection of non-negative integers and infinities
fmin(S) ==
    LET fin == {a.n : a \in {b \in S : IsNum(b)}}
    IN  IF fin = {} THEN inf ELSE Num(SetMin(fin), 1)

(***************************************************************************)
(* Rows of the two tables.  A column that does not exist in a table is     *)
(* absent from node_cols / edge_cols and its field holds the default.      *)
(***************************************************************************)
\* tract: the demographic polygon the node's point lies within, 0 for none;
\* ref: a tag that few junctions carry
NodeRow(grocery) ==
    [grocery |-> grocery, nearest_grocery_time |-> nan, pagerank |-> nan,
     betweenness |-> nan, aoa |-> FALSE, buffer |-> FALSE, tract |-> 0,
     density |-> nan, ref |-> nan, hwy |-> <<>>]

\* highway: the road classification, one category or a list of them;
\* lanes: a tag that some road segments carry and others lack
EdgeRow(u, v, key, travel_time) ==
    [u |-> u, v |-> v, key |-> key, travel_time |-> travel_time,
     highway |-> {"residential"}, lanes |-> Num(2, 1),
     nearest_grocery_time |-> nan, pagerank |-> nan,
     aoa |-> FALSE, buffer |-> FALSE, hwy |-> <<>>]

NodeIds == DOMAIN nodes

grocery_node_ids == {n \in NodeIds : nodes[n].grocery}

(***************************************************************************)
(* Shortest paths.  dijkstra is the library routine: distances from a set  *)
(* of sources, as a dict over the nodes it reaches.  mode "out" follows an *)
(* edge from u to v, "in" from v to u, "all" both ways.                    *)
(***************************************************************************)
Arcs(E, mode) ==
    (IF mode \in {"out", "all"}
        THEN {[from |-> e.u, to |-> e.v, w |-> e.travel_time] : e \in E} ELSE {})
    \cup
    (IF mode \in {"in", "all"}
        THEN {[from |-> e.v, to |-> e.u, w |-> e.travel_time] : e \in E} ELSE {})

Relax(A, D) ==
    LET reach == DOMAIN D \cup {a.to : a \in {b \in A : b.from \in DOMAIN D}}
    IN  [x \in reach |->
            SetMin((IF x \in DOMAIN D THEN {D[x]} ELSE {})
                   \cup {D[a.from] + a.w : a \in {b \in A : b.to = x /\ b.from \in DOMAIN D}})]

RECURSIVE Settle(_, _)
Settle(A, D) == LET D2 == Relax(A, D) IN IF D2 = D THEN D ELSE Settle(A, D2)

\* seeded fault: the weight attribute is not passed, every edge costs one hop
dijkstra_unweighted(E, mode, sources) ==
    Settle({[a EXCEPT !.w = 1] : a \in Arcs(E, mode)}, [s \in sources |-> 0])

dijkstra(E, mode, sources) == Settle(Arcs(E, mode), [s \in sources |-> 0])

\* networkx follows the edges of a directed graph forwards
nx_mode == IF directed THEN "out" ELSE "all"

\* seeded fault: the search runs forwards from the grocery stores
ig_mode_forward == IF directed THEN "out" ELSE "all"

\* "in" on a directed graph: paths to the grocery stores, one-way streets respected
ig_mode == IF directed THEN "in" ELSE "all"

\* igraph's shortest_paths: one row per source, infinity for an unreached vertex
shortest_paths(source, mode) ==
    [i \in source |->
        LET D == dijkstra(edges, mode, {i})
        IN  [j \in NodeIds |-> IF j \in DOMAIN D THEN Num(D[j], 1) ELSE inf]]

(***************************************************************************)
(* add_grocery_travel_time and its two implementations.  Each returns the  *)
(* dict it hands to nx.set_node_attributes, whether it warned, and the     *)
(* exception it raised.                                                    *)
(***************************************************************************)
add_grocery_travel_time_igraph ==
    LET grocery_indices == grocery_node_ids
        sp == shortest_paths(grocery_indices, ig_mode)
        shortest_paths_to_grocery ==
            [j \in NodeIds |-> fmin({sp[i][j] : i \in grocery_indices})]
        other_store_distances(g) == {sp[i][g] : i \in grocery_indices \ {g}}
    IN  IF grocery_indices = {}
        THEN [set |-> <<>>, warned |-> TRUE, exc |-> "none"]
        ELSE [set |-> [j \in NodeIds |->
                        IF j \in grocery_indices /\ grocery_indices \ {j} # {}
                        THEN fmin(other_store_distances(j))
                        ELSE shortest_paths_to_grocery[j]],
              warned |-> FALSE, exc |-> "none"]

add_grocery_travel_time_nx ==
    LET ids == grocery_node_ids
        \* nx.multi_source_dijkstra_path_length: only the nodes the sources reach
        shortest_paths_to_grocery == dijkstra(edges, nx_mode, ids)
        non_self_distances(node) ==
            LET sps == dijkstra(edges, nx_mode, {node})
            IN  {sps[t] : t \in (DOMAIN sps \cap ids) \ {node}}
        fixed(node) ==
            IF shortest_paths_to_grocery[node] = 0 /\ non_self_distances(node) # {}
            THEN SetMin(non_self_distances(node))
            ELSE shortest_paths_to_grocery[node]
    IN  IF ids = {}
        THEN [set |-> <<>>, warned |-> FALSE, exc |-> "ValueError"]
        ELSE [set |-> [n \in DOMAIN shortest_paths_to_grocery |->
                        Num(IF n \in ids THEN fixed(n) ELSE shortest_paths_to_grocery[n], 1)],
              warned |-> FALSE, exc |-> "none"]

add_grocery_travel_time(ig) ==
    IF ig THEN add_grocery_travel_time_igraph ELSE add_grocery_travel_time_nx

\* nx.set_node_attributes(graph, values, name): only the keys of values are set
set_node_attributes(values, name) ==
    [n \in NodeIds |->
        IF n \in DOMAIN values THEN [nodes[n] EXCEPT ![name] = values[n]] ELSE nodes[n]]

NoGroceryWarning == "No grocery stores found in graph!"

AddGroceryTravelTime(ig, here, next) ==
    /\ pc = here
    /\ LET r == add_grocery_travel_time(ig)
       IN  /\ nodes' = set_node_attributes(r.set, "nearest_grocery_time")
           /\ node_cols' = IF DOMAIN r.set = {} THEN node_cols
                           ELSE node_cols \cup {"nearest_grocery_time"}
           /\ warnings' = IF r.warned THEN warnings \cup {NoGroceryWarning} ELSE warnings
           /\ raised' = r.exc
           /\ pc' = IF r.exc = "none" THEN next ELSE "raised"
    /\ igraph' = ig
    /\ UNCHANGED <<args, result, batch, cache, edges, edge_cols, directed, svi>>

(***************************************************************************)
(* add_average_to_edge: a node without the attribute counts as nan.        *)
(***************************************************************************)
node_get(n, attribute) ==
    IF attribute \in node_cols /\ n \in NodeIds THEN nodes[n][attribute] ELSE nan

\* seeded fault: the source value is used for both endpoints
average_value_source_only(source_value, target_value) ==
    fdiv(fadd(source_value, source_value), 2)

average_value(source_value, target_value) == fdiv(fadd(source_value, target_value), 2)

add_average_to_edge(attribute) ==
    {[e EXCEPT ![attribute] =
        average_value(node_get(e.u, attribute), node_get(e.v, attribute))] : e \in edges}

AddAverageToEdge(attribute, here, next) ==
    /\ pc = here
    /\ edges' = add_average_to_edge(attribute)
    /\ edge_cols' = IF edges = {} THEN edge_cols ELSE edge_cols \cup {attribute}
    /\ pc' = next
    /\ UNCHANGED <<args, result, batch, cache, nodes, node_cols, directed, igraph, svi, warnings, raised>>

(***************************************************************************)
(* merge_grocery: the nodes that sjoin_nearest pairs with a grocery POI.   *)
(***************************************************************************)
merge_grocery(index_right) ==
    [n \in NodeIds |-> [nodes[n] EXCEPT !.grocery = n \in index_right]]

\* paired: the sets of nodes the grocery table at hand can be paired with
MergeGrocery(paired) ==
    /\ pc = "merge_grocery"
    /\ \E index_right \in paired : nodes' = merge_grocery(index_right)
    /\ node_cols' = node_cols \cup {"grocery"}
    /\ pc' = "add_grocery_travel_time"
    /\ UNCHANGED <<args, result, batch, cache, edges, edge_cols, directed, igraph, svi, warnings, raised>>

(***************************************************************************)
(* add_pagerank and add_betweenness.  The scores are the libraries'; what  *)
(* the tables see of them is a finite number on every node.                *)
(***************************************************************************)
pagerank == [n \in NodeIds |-> Num(1, Cardinality(NodeIds))]

betweenness == [n \in NodeIds |-> Num(0, 1)]

AddPagerank ==
    /\ pc = "add_pagerank"
    /\ nodes' = set_node_attributes(pagerank, "pagerank")
    /\ node_cols' = node_cols \cup {"pagerank"}
    /\ pc' = "add_betweenness"
    /\ UNCHANGED <<args, result, batch, cache, edges, edge_cols, directed, igraph, svi, warnings, raised>>

AddBetweenness ==
    /\ pc = "add_betweenness"
    /\ nodes' = set_node_attributes(betweenness, "betweenness")
    /\ node_cols' = node_cols \cup {"betweenness"}
    /\ pc' = "average_travel_time"
    /\ UNCHANGED <<args, result, batch, cache, edges, edge_cols, directed, igraph, svi, warnings, raised>>

(***************************************************************************)
(* The region flags of data_from_placename.  within: the nodes whose point *)
(* lies within the area of analysis.                                       *)
(***************************************************************************)
\* seeded fault: one endpoint in the area of analysis is enough
edge_aoa_either(u, v, aoa_nodes) == u \in aoa_nodes \/ v \in aoa_nodes

edge_aoa(u, v, aoa_nodes) == u \in aoa_nodes /\ v \in aoa_nodes

edge_buffer(u, v, aoa_nodes) == ~(u \in aoa_nodes /\ v \in aoa_nodes)

RegionFlags ==
    /\ pc = "region_flags"
    /\ \E within \in SUBSET NodeIds :
          LET flagged == [n \in NodeIds |->
                            [nodes[n] EXCEPT !.aoa = n \in within, !.buffer = ~(n \in within)]]
              aoa_nodes == {n \in NodeIds : flagged[n].aoa}
          IN  /\ nodes' = flagged
              /\ edges' = {[e EXCEPT !.aoa = edge_aoa(e.u, e.v, aoa_nodes),
                                     !.buffer = edge_buffer(e.u, e.v, aoa_nodes)] : e \in edges}
    /\ node_cols' = node_cols \cup {"aoa", "buffer"}
    /\ edge_cols' = edge_cols \cup {"aoa", "buffer"}
    /\ pc' = "merge_svi"
    /\ UNCHANGED <<args, result, batch, cache, directed, igraph, svi, warnings, raised>>

(***************************************************************************)
(* read_svi and merge_svi.                                                 *)
(***************************************************************************)
\* the "not available" value of the demographic data set
Sentinel == -999

\* a / b for b > 0
fdivide(a, b) == Num(a.n * b.d, a.d * b.n)

read_svi(gdf) ==
    [t \in DOMAIN gdf |->
        [E_TOTPOP |-> gdf[t].E_TOTPOP, AREA_SQMI |-> gdf[t].AREA_SQMI,
         density |-> fdivide(gdf[t].E_TOTPOP, gdf[t].AREA_SQMI)]]

\* nodes.sjoin(svi, how="left", predicate="within")
sjoin(N) ==
    [n \in DOMAIN N |->
        [N[n] EXCEPT !.density =
            IF N[n].tract \in DOMAIN svi THEN svi[N[n].tract].density ELSE nan]]

FallbackWarning == "Falling back to spatial join using GEODESIC geometry."

\* the except branch joins again in geodetic coordinates and drops the result
merge_svi(N, join_fails) ==
    IF ~join_fails
    THEN [nodes |-> sjoin(N), cols |-> node_cols \cup {"index_right", "density"},
          warned |-> FALSE]
    ELSE [nodes |-> N, cols |-> node_cols, warned |-> TRUE]

MergeSvi ==
    /\ pc = "merge_svi"
    /\ \E tract \in [NodeIds -> DOMAIN svi \cup {0}], join_fails \in BOOLEAN :
          LET r == merge_svi([n \in NodeIds |-> [nodes[n] EXCEPT !.tract = tract[n]]],
                             join_fails)
          IN  /\ nodes' = r.nodes
              /\ node_cols' = r.cols
              /\ warnings' = IF r.warned THEN warnings \cup {FallbackWarning} ELSE warnings
    /\ pc' = "clean_edges"
    /\ UNCHANGED <<args, result, batch, cache, edges, edge_cols, directed, igraph, svi, raised>>

(***************************************************************************)
(* clean_edges, clean_nodes, reconcile_nodes_edges,                        *)
(* merge_highway_dummies_to_nodes.                                         *)
(***************************************************************************)
\* the columns that can hold a missing value
EdgeValueCols == {"lanes", "nearest_grocery_time", "pagerank"}
NodeValueCols == {"nearest_grocery_time", "pagerank", "betweenness", "density", "ref"}

HwyCol(c) == IF c = "primary" THEN "primary_hwy" ELSE "residential_hwy"

\* dropna(axis="columns", thresh=int(len(edges) * 0.95))
thresh(E) == (Cardinality(E) * 95) \div 100

clean_edges_cols(E, cols) ==
    {c \in cols : c \in EdgeValueCols =>
                    Cardinality({e \in E : e[c] # nan}) >= thresh(E)}

\* seeded fault: the indicator marks every category of the table on every edge
clean_edges_all_ones(E, cols) ==
    LET kept == clean_edges_cols(E, cols)
        rows == {e \in E : \A c \in kept \cap EdgeValueCols : e[c] # nan}
        highway_dummies == {HwyCol(c) : c \in UNION {e.highway : e \in rows}}
    IN  [edges |-> {[e EXCEPT !.hwy = [h \in highway_dummies |-> 1]] : e \in rows},
         cols |-> (kept \cup highway_dummies) \ {"highway"}]

clean_edges(E, cols) ==
    LET kept == clean_edges_cols(E, cols)
        rows == {e \in E : \A c \in kept \cap EdgeValueCols : e[c] # nan}
        highway_dummies == {HwyCol(c) : c \in UNION {e.highway : e \in rows}}
    IN  [edges |-> {[e EXCEPT !.hwy = [h \in highway_dummies |->
                                        IF h \in {HwyCol(c) : c \in e.highway} THEN 1 ELSE 0]]
                        : e \in rows},
         cols |-> (kept \cup highway_dummies) \ {"highway"}]

CleanEdges ==
    /\ pc = "clean_edges"
    /\ LET r == clean_edges(edges, edge_cols)
       IN  edges' = r.edges /\ edge_cols' = r.cols
    /\ pc' = "clean_nodes"
    /\ UNCHANGED <<args, result, batch, cache, nodes, node_cols, directed, igraph, svi, warnings, raised>>

\* seeded fault: the rows are judged before the join-artifact columns are removed
clean_nodes_rows_first(N, cols) ==
    LET kept == cols \ {"lat", "lon", "index_right", "highway", "ref"}
        rows == {n \in DOMAIN N : \A c \in cols \cap NodeValueCols : IsNum(N[n][c])}
    IN  [nodes |-> [n \in rows |-> N[n]], cols |-> kept]

\* seeded fault: an infinite value is not taken for a missing one
clean_nodes_keeps_inf(N, cols) ==
    LET kept == cols \ {"lat", "lon", "index_right", "highway", "ref"}
        rows == {n \in DOMAIN N : \A c \in kept \cap NodeValueCols : N[n][c] # nan}
    IN  [nodes |-> [n \in rows |-> N[n]], cols |-> kept]

clean_nodes(N, cols) ==
    LET kept == cols \ {"lat", "lon", "index_right", "highway", "ref"}
        rows == {n \in DOMAIN N : \A c \in kept \cap NodeValueCols : IsNum(N[n][c])}
    IN  [nodes |-> [n \in rows |-> N[n]], cols |-> kept]

CleanNodes ==
    /\ pc = "clean_nodes"
    /\ LET r == clean_nodes(nodes, node_cols)
       IN  nodes' = r.nodes /\ node_cols' = r.cols
    /\ pc' = "reconcile_nodes_edges"
    /\ UNCHANGED <<args, result, batch, cache, edges, edge_cols, directed, igraph, svi, warnings, raised>>

\* seeded fault: the edges are not filtered
reconcile_edges_unfiltered(E, complete) == E

reconcile_edges(E, complete) == {e \in E : e.u \in complete /\ e.v \in complete}

reconcile_nodes_edges(N, E) ==
    LET complete == (DOMAIN N \cap {e.u : e \in E}) \cap {e.v : e \in E}
    IN  [nodes |-> [n \in DOMAIN N \cap complete |-> N[n]],
         edges |-> reconcile_edges(E, complete)]

ReconcileNodesEdges ==
    /\ pc = "reconcile_nodes_edges"
    /\ LET r == reconcile_nodes_edges(nodes, edges)
       IN  nodes' = r.nodes /\ edges' = r.edges
    /\ pc' = "merge_highway_dummies_to_nodes"
    /\ UNCHANGED <<args, result, batch, cache, node_cols, edge_cols, directed, igraph, svi, warnings, raised>>

RECURSIVE SumOver(_, _)
SumOver(E, h) ==
    IF E = {} THEN 0
    ELSE LET e == CHOOSE x \in E : TRUE IN e.hwy[h] + SumOver(E \ {e}, h)

merge_highway_dummies_to_nodes(N, E, cols) ==
    LET highway_cols == {c \in cols : c \in {HwyCol("primary"), HwyCol("residential")}}
    IN  [n \in DOMAIN N |->
            [N[n] EXCEPT !.hwy =
                [h \in highway_cols |->
                    IF {e \in E : e.u = n} = {} THEN nan
                    ELSE Num(SumOver({e \in E : e.u = n}, h), 1)]]]

MergeHighwayDummiesToNodes ==
    /\ pc = "merge_highway_dummies_to_nodes"
    /\ nodes' = merge_highway_dummies_to_nodes(nodes, edges, edge_cols)
    /\ node_cols' = node_cols \cup
                        {c \in edge_cols : c \in {HwyCol("primary"), HwyCol("residential")}}
    /\ pc' = "done"
    /\ UNCHANGED <<args, result, batch, cache, edges, edge_cols, directed, igraph, svi, warnings, raised>>

(***************************************************************************)
(* The inputs: every directed graph over 1..MaxNodes with at most MaxEdges *)
(* one-way road segments, and three fixed networks.                        *)
(***************************************************************************)
Times == 1..MaxTime

Segments == {EdgeRow(u, v, 0, t) : u \in 1..MaxNodes, v \in 1..MaxNodes, t \in Times}

RECURSIVE EdgeSets(_)
EdgeSets(k) ==
    IF k = 0 THEN {{}}
    ELSE LET P == EdgeSets(k - 1)
         IN  P \cup {T \cup {e} : T \in P,
                     e \in {s \in Segments : s.u # s.v}}

SameSegment(e, f) == e.u = f.u /\ e.v = f.v /\ e.key = f.key

WellFormed(E) == \A e \in E, f \in E : SameSegment(e, f) => e = f

TwoWay(a, b, t) == {EdgeRow(a, b, 0, t), EdgeRow(b, a, 0, t)}

\* the synthetic network of the specification: A-B=2, A-C=5, B-D=3, C-E=1
Scenario5 == TwoWay(1, 2, 2) \cup TwoWay(1, 3, 5) \cup TwoWay(2, 4, 3) \cup TwoWay(3, 5, 1)

Scenario5Undirected ==
    {EdgeRow(1, 2, 0, 2), EdgeRow(1, 3, 0, 5), EdgeRow(2, 4, 0, 3), EdgeRow(3, 5, 0, 1)}

\* two parallel carriageways from 1 to 2 with a quicker way round through 3, the
\* way back from 2 to 1, and a one-way feeder from 4
Detour ==
    {EdgeRow(1, 2, 0, 4), EdgeRow(1, 2, 1, 5), EdgeRow(1, 3, 0, 1), EdgeRow(3, 2, 0, 2),
     EdgeRow(2, 1, 0, 4), EdgeRow(4, 1, 0, 1)}

Endpoints(E) == {e.u : e \in E} \cup {e.v : e \in E}

TravelGraphs ==
    {[ids |-> 1..MaxNodes, edges |-> E, directed |-> TRUE] :
        E \in {F \in EdgeSets(MaxEdges) : WellFormed(F)}}
    \cup {[ids |-> Endpoints(Scenario5), edges |-> Scenario5, directed |-> TRUE],
          [ids |-> Endpoints(Scenario5), edges |-> Scenario5Undirected, directed |-> FALSE],
          [ids |-> Endpoints(Detour), edges |-> Detour, directed |-> TRUE]}

\* the columns of the tables ox.graph_to_gdfs makes of a street network
NodeCols0 == {"x", "y", "lon", "lat", "highway", "ref", "street_count", "geometry"}
EdgeCols0 == {"u", "v", "key", "travel_time", "highway", "lanes", "geometry"}

InitTravel ==
    /\ pc = "merge_grocery"
    /\ \E g \in TravelGraphs :
          /\ nodes = [n \in g.ids |-> NodeRow(FALSE)]
          /\ edges = g.edges
          /\ directed = g.directed
    /\ node_cols = NodeCols0
    /\ edge_cols = EdgeCols0
    /\ igraph = TRUE
    /\ svi = <<>>
    /\ warnings = {}
    /\ raised = "none"
    /\ args = <<>>
    /\ result = <<>>
    /\ batch = <<>>
    /\ cache = <<>>

\* any grocery table, the empty one included
NextTravel ==
    \/ MergeGrocery(SUBSET NodeIds)
    \/ \E ig \in BOOLEAN : AddGroceryTravelTime(ig, "add_grocery_travel_time", "average_travel_time")
    \/ AddAverageToEdge("nearest_grocery_time", "average_travel_time", "done")

SpecTravel == InitTravel /\ [][NextTravel]_vars

(***************************************************************************)
(* data_from_placename: the street networks a query returns (every node    *)
(* is the end of a road segment), each segment with its tags, and the      *)
(* demographic tract of the region.                                        *)
(***************************************************************************)
Tags ==
    {[highway |-> {"residential"}, lanes |-> Num(2, 1)],
     [highway |-> {"primary", "residential"}, lanes |-> nan]}

Tagged(E, tags) == {[e EXCEPT !.highway = tags[e].highway, !.lanes = tags[e].lanes] : e \in E}

StreetNetworks == {E \in EdgeSets(MaxEdges) : WellFormed(E) /\ E # {}}

RawSvi ==
    [{1} -> [E_TOTPOP : {Num(Sentinel, 1), Num(3, 1)}, AREA_SQMI : {Num(2, 1)}]]

Init ==
    /\ pc = "fetch"
    /\ nodes = <<>>
    /\ edges = {}
    /\ node_cols = {}
    /\ edge_cols = {}
    /\ directed = TRUE
    /\ igraph = TRUE
    /\ svi = <<>>
    /\ warnings = {}
    /\ raised = "none"
    /\ args = <<>>
    /\ result = <<>>
    /\ batch = <<>>
    /\ cache = <<>>

NoStreetsWarning == "No streets or roads could be found in the boundary"

\* what ox.graph_from_polygon raises on a region without a qualifying road: the
\* null-graph error of the connectivity test, or the empty-response error
EmptyRegionErrors == {"NetworkXPointlessConcept", "InsufficientResponseError"}

\* E: the qualifying roads of the region; err: the library's error when there are none.
\* Only NetworkXPointlessConcept is caught, and answered with None.
road_network_from_polygon(E, err) ==
    IF E # {} THEN [none |-> FALSE, edges |-> E, warned |-> FALSE, exc |-> "none"]
    ELSE IF err = "NetworkXPointlessConcept"
    THEN [none |-> TRUE, edges |-> {}, warned |-> TRUE, exc |-> "none"]
    ELSE [none |-> TRUE, edges |-> {}, warned |-> FALSE, exc |-> err]

\* ox.graph_to_gdfs(G) reads G.nodes: there is none on None
graph_to_gdfs_exc(G) == IF G.none THEN "AttributeError" ELSE "none"

\* geocode, fetch_groceries, fetch_graph, read_svi, ox.graph_to_gdfs
Fetch ==
    /\ pc = "fetch"
    /\ \E E \in StreetNetworks \cup {{}}, err \in EmptyRegionErrors, gdf \in RawSvi :
          LET street_nx == road_network_from_polygon(E, err)
              exc == IF street_nx.exc # "none" THEN street_nx.exc
                     ELSE graph_to_gdfs_exc(street_nx)
          IN  /\ warnings' = IF street_nx.warned THEN warnings \cup {NoStreetsWarning}
                              ELSE warnings
              /\ raised' = exc
              /\ IF exc # "none"
                 THEN /\ pc' = "raised"
                      /\ UNCHANGED <<nodes, edges, node_cols, edge_cols>>
                      /\ svi' = IF street_nx.exc # "none" THEN svi ELSE read_svi(gdf)
                 ELSE /\ pc' = "merge_grocery"
                      /\ nodes' = [n \in Endpoints(E) |-> NodeRow(FALSE)]
                      /\ \E tags \in [E -> Tags] : edges' = Tagged(E, tags)
                      /\ svi' = read_svi(gdf)
                      /\ node_cols' = NodeCols0
                      /\ edge_cols' = EdgeCols0
    /\ UNCHANGED <<args, result, batch, cache, directed, igraph>>

Next ==
    \/ Fetch
    \/ MergeGrocery(SUBSET NodeIds \ {{}})
    \/ AddGroceryTravelTime(TRUE, "add_grocery_travel_time", "add_pagerank")
    \/ AddPagerank
    \/ AddBetweenness
    \/ AddAverageToEdge("nearest_grocery_time", "average_travel_time", "average_pagerank")
    \/ AddAverageToEdge("pagerank", "average_pagerank", "region_flags")
    \/ RegionFlags
    \/ MergeSvi
    \/ CleanEdges
    \/ CleanNodes
    \/ ReconcileNodesEdges
    \/ MergeHighwayDummiesToNodes

Spec == Init /\ [][Next]_vars

(***************************************************************************)
(* The region flags on the tables of any street network.                   *)
(***************************************************************************)
InitFlags ==
    /\ pc = "region_flags"
    /\ \E g \in TravelGraphs :
          /\ nodes = [n \in g.ids |-> NodeRow(FALSE)]
          /\ edges = g.edges
          /\ directed = g.directed
    /\ node_cols = NodeCols0
    /\ edge_cols = EdgeCols0
    /\ igraph = TRUE
    /\ svi = <<>>
    /\ warnings = {}
    /\ raised = "none"
    /\ args = <<>>
    /\ result = <<>>
    /\ batch = <<>>
    /\ cache = <<>>

NextFlags == RegionFlags

SpecFlags == InitFlags /\ [][NextFlags]_vars

(***************************************************************************)
(* reconcile_nodes_edges on any pair of tables: any set of node rows, any  *)
(* set of edge rows (self-loops and references to absent nodes included),  *)
(* in the shape clean_nodes and clean_edges leave them.                    *)
(***************************************************************************)
Rows == {EdgeRow(u, v, 0, 1) : u \in 1..MaxNodes, v \in 1..MaxNodes}

RECURSIVE EdgeTables(_)
EdgeTables(k) ==
    IF k = 0 THEN {{}}
    ELSE LET P == EdgeTables(k - 1) IN P \cup {T \cup {e} : T \in P, e \in Rows}

InitReconcile ==
    /\ pc = "reconcile_nodes_edges"
    /\ \E ids \in SUBSET (1..MaxNodes), E \in {F \in EdgeTables(MaxEdges) : WellFormed(F)} :
          /\ nodes = clean_nodes([n \in ids |-> NodeRow(FALSE)], NodeCols0).nodes
          /\ edges = clean_edges(E, EdgeCols0).edges
          /\ edge_cols = clean_edges(E, EdgeCols0).cols
    /\ node_cols = clean_nodes(<<>>, NodeCols0).cols
    /\ directed = TRUE
    /\ igraph = TRUE
    /\ svi = <<>>
    /\ warnings = {}
    /\ raised = "none"
    /\ args = <<>>
    /\ result = <<>>
    /\ batch = <<>>
    /\ cache = <<>>

NextReconcile ==
    \/ ReconcileNodesEdges
    \/ MergeHighwayDummiesToNodes

SpecReconcile == InitReconcile /\ [][NextReconcile]_vars

(***************************************************************************)
(* The cleaning steps on any pair of tables: every node with a travel time *)
(* that is a number, infinite or missing, and any edge table with its tags.*)
(***************************************************************************)
CleanTags == Tags \cup {[highway |-> {"primary"}, lanes |-> Num(1, 1)]}

NodeValues == {nan, inf, Num(1, 1)}

InitClean ==
    /\ pc = "clean_edges"
    /\ \E t \in [1..MaxNodes -> NodeValues] :
          nodes = [n \in 1..MaxNodes |->
                      [NodeRow(FALSE) EXCEPT !.nearest_grocery_time = t[n]]]
    /\ \E E \in {F \in EdgeTables(MaxEdges) : WellFormed(F)} :
          \E tags \in [E -> CleanTags] : edges = Tagged(E, tags)
    /\ node_cols = NodeCols0 \cup {"grocery", "nearest_grocery_time"}
    /\ edge_cols = EdgeCols0
    /\ directed = TRUE
    /\ igraph = TRUE
    /\ svi = <<>>
    /\ warnings = {}
    /\ raised = "none"
    /\ args = <<>>
    /\ result = <<>>
    /\ batch = <<>>
    /\ cache = <<>>

NextClean ==
    \/ CleanEdges
    \/ CleanNodes
    \/ ReconcileNodesEdges
    \/ MergeHighwayDummiesToNodes

SpecClean == InitClean /\ [][NextClean]_vars

(***************************************************************************)
(* The averaging and the cleaning that follows it, on any graph: a node's  *)
(* travel time is a number, infinite, or missing, and the graph may lack   *)
(* the attribute altogether (no grocery found).                            *)
(***************************************************************************)
InitAverage ==
    /\ pc = "average_travel_time"
    /\ \E t \in [1..MaxNodes -> NodeValues] :
          nodes = [n \in 1..MaxNodes |->
                      [NodeRow(FALSE) EXCEPT !.nearest_grocery_time = t[n]]]
    /\ \E E \in {F \in EdgeTables(MaxEdges) : WellFormed(F)} :
          \E tags \in [E -> Tags] : edges = Tagged(E, tags)
    /\ \E attribute \in SUBSET {"nearest_grocery_time"} :
          node_cols = NodeCols0 \cup {"grocery"} \cup attribute
    /\ edge_cols = EdgeCols0
    /\ directed = TRUE
    /\ igraph = TRUE
    /\ svi = <<>>
    /\ warnings = {}
    /\ raised = "none"
    /\ args = <<>>
    /\ result = <<>>
    /\ batch = <<>>
    /\ cache = <<>>

NextAverage ==
    \/ AddAverageToEdge("nearest_grocery_time", "average_travel_time", "clean_edges")
    \/ CleanEdges
    \/ CleanNodes
    \/ ReconcileNodesEdges
    \/ MergeHighwayDummiesToNodes

SpecAverage == InitAverage /\ [][NextAverage]_vars

(***************************************************************************)
(* One enrichment step called on its own.  Here nodes, edges and their     *)
(* columns are the object handed to the step, as the caller still holds    *)
(* it; args keeps what it held at the call; result is what the step        *)
(* returns, and whether that is the very object it was handed.             *)
(***************************************************************************)
InitFrame ==
    /\ pc = "call"
    /\ \E grocery \in SUBSET (1..MaxNodes) :
          nodes = [n \in 1..MaxNodes |-> NodeRow(n \in grocery)]
    /\ \E E \in {F \in EdgeTables(MaxEdges) : WellFormed(F)} : edges = E
    /\ node_cols = NodeCols0 \cup {"grocery"}
    /\ edge_cols = EdgeCols0
    /\ \E step \in {"merge_grocery", "add_grocery_travel_time", "add_pagerank",
                    "add_betweenness", "add_average_to_edge", "merge_svi", "clean_edges",
                    "clean_nodes", "reconcile_nodes_edges", "merge_highway_dummies_to_nodes"} :
          args = [step |-> step, nodes |-> nodes, edges |-> edges,
                  node_cols |-> node_cols, edge_cols |-> edge_cols]
    /\ directed = TRUE
    /\ igraph = TRUE
    /\ svi = <<>>
    /\ warnings = {}
    /\ raised = "none"
    /\ result = <<>>
    /\ batch = <<>>
    /\ cache = <<>>

\* the steps on the graph: nx.set_node_attributes(graph, ...) and
\* graph.edges[u, v, k][attribute] = ... write to the graph handed in, and
\* return graph hands the same object back
GraphStep ==
    /\ pc = "call"
    /\ \/ /\ args.step = "add_grocery_travel_time"
          /\ \E ig \in BOOLEAN :
                LET r == add_grocery_travel_time(ig)
                IN  /\ nodes' = set_node_attributes(r.set, "nearest_grocery_time")
                    /\ node_cols' = IF DOMAIN r.set = {} THEN node_cols
                                    ELSE node_cols \cup {"nearest_grocery_time"}
                    /\ raised' = r.exc
                    /\ pc' = IF r.exc = "none" THEN "returned" ELSE "raised"
          /\ UNCHANGED <<edges, edge_cols>>
       \/ /\ args.step = "add_pagerank"
          /\ nodes' = set_node_attributes(pagerank, "pagerank")
          /\ node_cols' = node_cols \cup {"pagerank"}
          /\ pc' = "returned"
          /\ UNCHANGED <<edges, edge_cols, raised>>
       \/ /\ args.step = "add_betweenness"
          /\ nodes' = set_node_attributes(betweenness, "betweenness")
          /\ node_cols' = node_cols \cup {"betweenness"}
          /\ pc' = "returned"
          /\ UNCHANGED <<edges, edge_cols, raised>>
       \/ /\ args.step = "add_average_to_edge"
          /\ edges' = add_average_to_edge("nearest_grocery_time")
          /\ edge_cols' = IF edges = {} THEN edge_cols
                          ELSE edge_cols \cup {"nearest_grocery_time"}
          /\ pc' = "returned"
          /\ UNCHANGED <<nodes, node_cols, raised>>
    /\ result' = [is_argument |-> TRUE, nodes |-> nodes', edges |-> edges']
    /\ UNCHANGED <<args, batch, cache, directed, igraph, svi, warnings>>

\* the steps on the tables: each works on a copy or builds a new table
TableStep ==
    /\ pc = "call"
    /\ \/ /\ args.step = "merge_grocery"
          /\ \E index_right \in SUBSET NodeIds :
                result' = [is_argument |-> FALSE, nodes |-> merge_grocery(index_right),
                           edges |-> edges]
       \/ /\ args.step = "merge_svi"
          /\ \E join_fails \in BOOLEAN :
                result' = [is_argument |-> FALSE, nodes |-> merge_svi(nodes, join_fails).nodes,
                           edges |-> edges]
       \/ /\ args.step = "clean_edges"
          /\ result' = [is_argument |-> FALSE, nodes |-> nodes,
                        edges |-> clean_edges(edges, edge_cols).edges]
       \/ /\ args.step = "clean_nodes"
          /\ result' = [is_argument |-> FALSE, nodes |-> clean_nodes(nodes, node_cols).nodes,
                        edges |-> edges]
       \/ /\ args.step = "reconcile_nodes_edges"
          /\ result' = [is_argument |-> FALSE,
                        nodes |-> reconcile_nodes_edges(nodes, edges).nodes,
                        edges |-> reconcile_nodes_edges(nodes, edges).edges]
       \/ /\ args.step = "merge_highway_dummies_to_nodes"
          /\ result' = [is_argument |-> FALSE,
                        nodes |-> merge_highway_dummies_to_nodes(nodes, edges, edge_cols),
                        edges |-> edges]
    /\ pc' = "returned"
    /\ UNCHANGED <<args, batch, cache>>
    /\ UNCHANGED tables

SpecFrame == InitFrame /\ [][GraphStep \/ TableStep]_vars

(***************************************************************************)
(* merge_grocery on a node table and a grocery table.  The places lie on a *)
(* road: node n at position 2n, a grocery POI on the stretch from lo to hi *)
(* (a point when lo = hi, a footprint otherwise).                          *)
(***************************************************************************)
MaxPois == 2

Position(n) == 2 * n

Pois == {[lo |-> a, hi |-> b] : a \in 1..(2 * MaxNodes + 1), b \in 1..(2 * MaxNodes + 1)}

RECURSIVE GroceryTables(_)
GroceryTables(k) ==
    IF k = 0 THEN {{}}
    ELSE LET P == GroceryTables(k - 1)
         IN  P \cup {T \cup {g} : T \in P, g \in {q \in Pois : q.lo <= q.hi}}

\* the distance between a node's point and a POI's geometry
distance(n, g) ==
    IF Position(n) < g.lo THEN g.lo - Position(n)
    ELSE IF Position(n) > g.hi THEN Position(n) - g.hi
    ELSE 0

\* seeded fault: a containment test, the nodes that lie within a POI
sjoin_within(groceries, ids) ==
    {n \in ids : \E g \in groceries : distance(n, g) = 0}

\* groceries.sjoin_nearest(nodes).index_right: for each POI the nodes at the
\* least distance from it
sjoin_nearest(groceries, ids) ==
    {n \in ids : \E g \in groceries : distance(n, g) = SetMin({distance(m, g) : m \in ids})}

InitGrocery ==
    /\ pc = "merge_grocery"
    /\ \E ids \in SUBSET (1..MaxNodes) \ {{}} : nodes = [n \in ids |-> NodeRow(FALSE)]
    /\ \E groceries \in GroceryTables(MaxPois) : args = [groceries |-> groceries]
    /\ edges = {}
    /\ node_cols = NodeCols0
    /\ edge_cols = EdgeCols0
    /\ directed = TRUE
    /\ igraph = TRUE
    /\ svi = <<>>
    /\ warnings = {}
    /\ raised = "none"
    /\ result = <<>>
    /\ batch = <<>>
    /\ cache = <<>>

NextGrocery == MergeGrocery({sjoin_nearest(args.groceries, NodeIds)})

SpecGrocery == InitGrocery /\ [][NextGrocery]_vars

(***************************************************************************)
(* poi_queries: the tag predicates of a tier made hashable and rebuilt, and *)
(* the circular region round a centre.  A tag value is a scalar, a list or *)
(* a tuple: the kind is kept, the members are in v.                        *)
(***************************************************************************)
MaxTags == 3

Keys == {"shop", "amenity"}

Values == {"general", "convenience"}

Scalar(x) == [kind |-> "scalar", v |-> <<x>>]

\* the dicts of SECONDARY and TERTIARY: keys with one scalar value each
PredicateDicts == UNION {[K -> {Scalar(x) : x \in Values}] : K \in SUBSET Keys \ {{}}}

TagLists == UNION {[1..n -> PredicateDicts] : n \in 0..MaxTags}

\* seeded fault: a later value of a key replaces the earlier one
combine_last_wins(combined_tags, key, value) ==
    [k \in DOMAIN combined_tags \cup {key} |-> IF k = key THEN value ELSE combined_tags[k]]

\* lines 46-53, one (key, value) of one tag dict
combine(combined_tags, key, value) ==
    IF key \in DOMAIN combined_tags
    THEN IF combined_tags[key].kind = "list"
         THEN [combined_tags EXCEPT ![key] = [kind |-> "list", v |-> Append(@.v, value.v[1])]]
         ELSE [combined_tags EXCEPT ![key] = [kind |-> "list", v |-> <<@.v[1], value.v[1]>>]]
    ELSE [k \in DOMAIN combined_tags \cup {key} |-> IF k = key THEN value ELSE combined_tags[k]]

RECURSIVE combine_items(_, _, _)
combine_items(combined_tags, tag, keys) ==
    IF keys = {} THEN combined_tags
    ELSE LET key == CHOOSE k \in keys : TRUE
         IN  combine_items(combine(combined_tags, key, tag[key]), tag, keys \ {key})

RECURSIVE combine_tags(_, _)
combine_tags(tags, i) ==
    IF i = 0 THEN <<>>
    ELSE LET tag == tags[i]
         IN  combine_items(combine_tags(tags, i - 1), tag, DOMAIN tag)

\* tuple(value) if isinstance(value, list) else value
as_tuple(value) == IF value.kind = "list" THEN [kind |-> "tuple", v |-> value.v] ELSE value

\* list(value) if isinstance(value, tuple) else value
as_list(value) == IF value.kind = "tuple" THEN [kind |-> "list", v |-> value.v] ELSE value

make_hashable_tags_helper(tags) ==
    IF tags.kind = "dict"
    THEN [exc |-> "none", frozenset |-> {<<key, tags.dict[key]>> : key \in DOMAIN tags.dict}]
    ELSE IF tags.kind = "list"
    THEN LET combined_tags == combine_tags(tags.list, Len(tags.list))
         IN  [exc |-> "none",
              frozenset |-> {<<key, as_tuple(combined_tags[key])>> : key \in DOMAIN combined_tags}]
    ELSE [exc |-> "ValueError", frozenset |-> {}]

\* the dict that _from_place_name_helper and _from_point_helper pass on
from_place_name_helper(hashable_tags) ==
    LET tags == [key \in {p[1] : p \in hashable_tags} |->
                    (CHOOSE p \in hashable_tags : p[1] = key)[2]]
    IN  [key \in DOMAIN tags |-> as_list(tags[key])]

None == [some |-> FALSE, v |-> 0]

Some(x) == [some |-> TRUE, v |-> x]

Degrees == {0, 1}

Point(x, y) == [some |-> TRUE, x |-> x, y |-> y]

Points == {[some |-> FALSE, x |-> 0, y |-> 0]} \cup {Point(x, y) : x \in Degrees, y \in Degrees}

\* seeded fault: one of lat and lon is taken for a pair
create_circular_polygon_either(lat, lon, point) ==
    IF lat.some \/ lon.some THEN [exc |-> "none", lon |-> lon.v, lat |-> lat.v]
    ELSE IF point.some THEN [exc |-> "none", lon |-> point.x, lat |-> point.y]
    ELSE [exc |-> "ValueError", lon |-> 0, lat |-> 0]

\* the centre of the region, or the error
create_circular_polygon(lat, lon, point) ==
    IF lat.some /\ lon.some THEN [exc |-> "none", lon |-> lon.v, lat |-> lat.v]
    ELSE IF point.some THEN [exc |-> "none", lon |-> point.x, lat |-> point.y]
    ELSE [exc |-> "ValueError", lon |-> 0, lat |-> 0]

TagArgs ==
    {[kind |-> "list", dict |-> <<>>, list |-> l] : l \in TagLists}
        \cup {[kind |-> "dict", dict |-> d, list |-> <<>>] : d \in PredicateDicts}
        \cup {[kind |-> "other", dict |-> <<>>, list |-> <<>>]}

Options(S) == {None} \cup {Some(x) : x \in S}

InitQueries ==
    /\ \/ /\ pc = "make_hashable_tags_helper"
          /\ \E tags \in TagArgs : args = [tags |-> tags]
       \/ /\ pc = "create_circular_polygon"
          /\ \E lat \in Options(Degrees), lon \in Options(Degrees), point \in Points :
                args = [lat |-> lat, lon |-> lon, point |-> point]
    /\ nodes = <<>>
    /\ edges = {}
    /\ node_cols = {}
    /\ edge_cols = {}
    /\ directed = TRUE
    /\ igraph = TRUE
    /\ svi = <<>>
    /\ warnings = {}
    /\ raised = "none"
    /\ result = <<>>
    /\ batch = <<>>
    /\ cache = <<>>

MakeHashableTags ==
    /\ pc = "make_hashable_tags_helper"
    /\ LET r == make_hashable_tags_helper(args.tags)
       IN  IF r.exc # "none"
           THEN /\ raised' = r.exc
                /\ pc' = "raised"
                /\ UNCHANGED result
           ELSE /\ result' = [hashable_tags |-> r.frozenset]
                /\ pc' = "from_place_name_helper"
                /\ UNCHANGED raised
    /\ UNCHANGED <<args, batch, cache, nodes, edges, node_cols, edge_cols, directed, igraph, svi, warnings>>

FromPlaceNameHelper ==
    /\ pc = "from_place_name_helper"
    /\ result' = [hashable_tags |-> result.hashable_tags,
                  tags |-> from_place_name_helper(result.hashable_tags)]
    /\ pc' = "features_from_place"
    /\ UNCHANGED <<args, batch, cache>>
    /\ UNCHANGED tables

CreateCircularPolygon ==
    /\ pc = "create_circular_polygon"
    /\ LET r == create_circular_polygon(args.lat, args.lon, args.point)
       IN  IF r.exc # "none"
           THEN /\ raised' = r.exc
                /\ pc' = "raised"
                /\ UNCHANGED result
           ELSE /\ result' = [lon |-> r.lon, lat |-> r.lat]
                /\ pc' = "buffer"
                /\ UNCHANGED raised
    /\ UNCHANGED <<args, batch, cache, nodes, edges, node_cols, edge_cols, directed, igraph, svi, warnings>>

NextQueries == MakeHashableTags \/ FromPlaceNameHelper \/ CreateCircularPolygon

SpecQueries == InitQueries /\ [][NextQueries]_vars

(***************************************************************************)
(* The two regions of data_from_placename.  A region is the buffer of its  *)
(* centre by a radius in the projection centred on that point: it is kept  *)
(* as centre and radius, and a radius that is not positive leaves no area. *)
(***************************************************************************)
MaxRadius == 3

\* a.within(b) for two buffers of the same centre
within(a, b) ==
    /\ a.radius_m > 0
    /\ a.lon = b.lon /\ a.lat = b.lat
    /\ a.radius_m <= b.radius_m

InitRegion ==
    /\ pc = "geocode"
    /\ \E lat \in Degrees, lon \in Degrees, radius_m \in 0..MaxRadius,
          buffer \in (0 - MaxRadius)..MaxRadius :
          args = [center |-> <<lat, lon>>, radius_m |-> radius_m, buffer |-> buffer]
    /\ nodes = <<>>
    /\ edges = {}
    /\ node_cols = {}
    /\ edge_cols = {}
    /\ directed = TRUE
    /\ igraph = TRUE
    /\ svi = <<>>
    /\ warnings = {}
    /\ raised = "none"
    /\ result = <<>>
    /\ batch = <<>>
    /\ cache = <<>>

\* area_of_analysis and query_scope, lines 443-448
Regions ==
    /\ pc = "geocode"
    /\ LET center == args.center
           circle == create_circular_polygon(Some(center[1]), Some(center[2]),
                                             [some |-> FALSE, x |-> 0, y |-> 0])
       IN  result' = [area_of_analysis |->
                          [lon |-> circle.lon, lat |-> circle.lat, radius_m |-> args.radius_m],
                      query_scope |->
                          [lon |-> circle.lon, lat |-> circle.lat,
                           radius_m |-> args.radius_m + args.buffer]]
    /\ pc' = "fetch_groceries"
    /\ UNCHANGED <<args, batch, cache>>
    /\ UNCHANGED tables

SpecRegion == InitRegion /\ [][Regions]_vars

(***************************************************************************)
(* disk_cache.  A key stands for the md5 of the function name and the      *)
(* arguments; a cache file is missing, unreadable, or holds a pickled      *)
(* result.  Only the wrapper writes the files.  outcome is what the        *)
(* wrapped function does if it is invoked: it returns a result, returns an *)
(* object that cannot be pickled, or raises.                               *)
(***************************************************************************)
MaxCalls == 3

CacheKeys == {"k1", "k2"}

Results == {"r1", "r2"}

\* seeded fault: the result is returned and no file is written
disk_cache_no_store(files, key, outcome) ==
    IF files[key] \in Results
    THEN [files |-> files, invoked |-> FALSE, exc |-> "none", value |-> files[key]]
    ELSE IF outcome = "raise"
    THEN [files |-> files, invoked |-> TRUE, exc |-> "Exception", value |-> "none"]
    ELSE IF outcome = "unpicklable"
    THEN [files |-> [files EXCEPT ![key] = "unreadable"], invoked |-> TRUE,
          exc |-> "PicklingError", value |-> "none"]
    ELSE [files |-> files, invoked |-> TRUE, exc |-> "none", value |-> outcome]

\* seeded fault: the error of the function is swallowed and stored
disk_cache_stores_failure(files, key, outcome) ==
    IF files[key] \in Results
    THEN [files |-> files, invoked |-> FALSE, exc |-> "none", value |-> files[key]]
    ELSE IF outcome = "raise"
    THEN [files |-> [files EXCEPT ![key] = "r1"], invoked |-> TRUE,
          exc |-> "none", value |-> "r1"]
    ELSE IF outcome = "unpicklable"
    THEN [files |-> [files EXCEPT ![key] = "unreadable"], invoked |-> TRUE,
          exc |-> "PicklingError", value |-> "none"]
    ELSE [files |-> [files EXCEPT ![key] = outcome], invoked |-> TRUE,
          exc |-> "none", value |-> outcome]

\* the wrapper, lines 56-75: a readable file is returned; otherwise the
\* function is called, and its result is written and returned
disk_cache(files, key, outcome) ==
    IF files[key] \in Results
    THEN [files |-> files, invoked |-> FALSE, exc |-> "none", value |-> files[key]]
    ELSE IF outcome = "raise"
    THEN [files |-> files, invoked |-> TRUE, exc |-> "Exception", value |-> "none"]
    ELSE IF outcome = "unpicklable"
    THEN [files |-> [files EXCEPT ![key] = "unreadable"], invoked |-> TRUE,
          exc |-> "PicklingError", value |-> "none"]
    ELSE [files |-> [files EXCEPT ![key] = outcome], invoked |-> TRUE,
          exc |-> "none", value |-> outcome]

InitCache ==
    /\ pc = "call"
    /\ \E files \in [CacheKeys -> Results \cup {"missing", "unreadable"}] :
          cache = [files |-> files, calls |-> 0,
                   invocations |-> [k \in CacheKeys |-> 0],
                   returned |-> [k \in CacheKeys |-> "none"]]
    /\ nodes = <<>>
    /\ edges = {}
    /\ node_cols = {}
    /\ edge_cols = {}
    /\ directed = TRUE
    /\ igraph = TRUE
    /\ svi = <<>>
    /\ warnings = {}
    /\ raised = "none"
    /\ args = <<>>
    /\ result = <<>>
    /\ batch = <<>>

\* one call of the wrapped function; calls, invocations and returned keep
\* count of the calls, of the runs of the function, and the first result
\* each key returned
DiskCacheCall ==
    /\ pc = "call"
    /\ cache.calls < MaxCalls
    /\ \E key \in CacheKeys, outcome \in Results \cup {"raise", "unpicklable"} :
          LET r == disk_cache(cache.files, key, outcome)
          IN  /\ args' = [key |-> key, outcome |-> outcome]
              /\ result' = [exc |-> r.exc, value |-> r.value]
              /\ cache' = [files |-> r.files,
                           calls |-> cache.calls + 1,
                           invocations |->
                               [cache.invocations EXCEPT
                                   ![key] = IF r.invoked THEN @ + 1 ELSE @],
                           returned |->
                               [cache.returned EXCEPT
                                   ![key] = IF @ = "none" /\ r.exc = "none"
                                            THEN r.value ELSE @]]
    /\ UNCHANGED <<pc, batch>>
    /\ UNCHANGED tables

SpecCache == InitCache /\ [][DiskCacheCall]_vars

(***************************************************************************)
(* batch_process_cities.  What the map service holds for a place is world, *)
(* what data/processed/cache holds for the call is cached.  The call names *)
(* refresh_cache, which data_from_placename does not take: on a cache miss *)
(* disk_cache calls the function and the call raises TypeError before any  *)
(* retrieval; a cache hit returns the pickled object without the call.     *)
(***************************************************************************)
MaxPlaces == 2

retries == 3

retry_delay == 60

Names == {"a", "b"}

Placenames == UNION {[1..n -> Names] : n \in 0..MaxPlaces}

World == {"features", "InsufficientResponseError", "ConnectTimeout"}

Cache == {"miss", "dict_with_nodes", "other_object"}

\* disk_cache(data_from_placename)(placename, ..., refresh_cache=False, ...)
data_from_placename_cached(cached) ==
    IF cached = "miss" THEN [exc |-> "TypeError", value |-> "none"]
    ELSE [exc |-> "none", value |-> cached]

\* the body of the try: the call and the check of its result
try_body(cached) ==
    LET r == data_from_placename_cached(cached)
    IN  IF r.exc # "none" THEN r.exc
        ELSE IF r.value = "dict_with_nodes" THEN "none"
        ELSE "ValueError"

\* seeded fault: the place is listed as failed whatever happened
record_failed_always(failed_cities, placename, success) ==
    Append(failed_cities, placename)

\* if not success: failed_cities.append(placename)
record_failed(failed_cities, placename, success) ==
    IF ~success THEN Append(failed_cities, placename) ELSE failed_cities

InitBatch ==
    /\ pc = "for_placename"
    /\ \E placenames \in Placenames, world \in [Names -> World], cached \in [Names -> Cache] :
          batch = [placenames |-> placenames, world |-> world, cached |-> cached,
                   i |-> 0, attempt |-> 0, success |-> FALSE, places |-> {},
                   successful_cities |-> <<>>, failed_cities |-> <<>>, attempts |-> <<>>,
                   sleeps |-> <<>>]
    /\ nodes = <<>>
    /\ edges = {}
    /\ node_cols = {}
    /\ edge_cols = {}
    /\ directed = TRUE
    /\ igraph = TRUE
    /\ svi = <<>>
    /\ warnings = {}
    /\ raised = "none"
    /\ args = <<>>
    /\ result = <<>>
    /\ cache = <<>>

\* for i, placename in enumerate(placenames): the next place, if any
BatchNextPlace ==
    /\ pc = "for_placename"
    /\ batch.i < Len(batch.placenames)
    /\ batch' = [batch EXCEPT !.i = @ + 1, !.attempt = 0, !.success = FALSE]
    /\ pc' = "for_attempt"
    /\ UNCHANGED <<args, result, cache>>
    /\ UNCHANGED tables

\* one turn of for attempt in range(retries), with its handlers; attempts and
\* sleeps record the calls made and the time.sleep(wait_time) calls
BatchAttempt ==
    /\ pc = "for_attempt"
    /\ LET placename == batch.placenames[batch.i]
           exc == try_body(batch.cached[placename])
           tried == [batch EXCEPT !.attempts = Append(@, placename), !.attempt = @ + 1]
           last == batch.attempt + 1 = retries
       IN  IF exc = "none"
           THEN /\ batch' = [tried EXCEPT !.places = @ \cup {placename},
                                          !.successful_cities = Append(@, placename),
                                          !.success = TRUE]
                /\ pc' = "if_not_success"
                /\ UNCHANGED warnings
           ELSE IF exc = "ConnectTimeout"
           THEN /\ batch' = IF last THEN tried
                           ELSE [tried EXCEPT !.sleeps =
                                    Append(@, <<placename, retry_delay * (batch.attempt + 1)>>)]
                /\ pc' = IF last THEN "if_not_success" ELSE "for_attempt"
                /\ warnings' = warnings \cup {IF last THEN "Timeout" ELSE "Timeout, retry"}
           ELSE IF exc = "InsufficientResponseError"
           THEN /\ batch' = tried
                /\ pc' = "if_not_success"
                /\ warnings' = warnings \cup {"Unable to complete data pull"}
           ELSE /\ batch' = tried
                /\ pc' = IF last THEN "if_not_success" ELSE "for_attempt"
                /\ warnings' = warnings \cup {"Failed to process"}
    /\ UNCHANGED <<args, result, cache, nodes, edges, node_cols, edge_cols, directed, igraph, svi, raised>>

BatchRecord ==
    /\ pc = "if_not_success"
    /\ batch' = [batch EXCEPT !.failed_cities =
                    record_failed(@, batch.placenames[batch.i], batch.success)]
    /\ pc' = "for_placename"
    /\ UNCHANGED <<args, result, cache>>
    /\ UNCHANGED tables

BatchReturn ==
    /\ pc = "for_placename"
    /\ batch.i = Len(batch.placenames)
    /\ result' = [places |-> batch.places, successful |-> batch.successful_cities,
                  failed |-> batch.failed_cities]
    /\ pc' = "returned"
    /\ UNCHANGED <<args, batch, cache>>
    /\ UNCHANGED tables

NextBatch == BatchNextPlace \/ BatchAttempt \/ BatchRecord \/ BatchReturn

SpecBatch == InitBatch /\ [][NextBatch]_vars

(***************************************************************************)
(* The travel time of the quickest route, stated on its own: the cheapest  *)
(* walk from a to b along the edges (both ways on an undirected graph),    *)
(* the infinity when there is none.                                        *)
(***************************************************************************)
RECURSIVE WalkCosts(_, _, _)
WalkCosts(a, b, k) ==
    IF a = b THEN {0}
    ELSE IF k = 0 THEN {}
    ELSE UNION {{e.travel_time + c : c \in WalkCosts(e.v, b, k - 1)} :
                    e \in {f \in edges : f.u = a}}
         \cup
         (IF directed THEN {}
          ELSE UNION {{e.travel_time + c : c \in WalkCosts(e.u, b, k - 1)} :
                    e \in {f \in edges : f.v = a}})

PathCost(a, b) ==
    LET S == WalkCosts(a, b, Cardinality(NodeIds))
    IN  IF S = {} THEN inf ELSE Num(SetMin(S), 1)

nearest_grocery_time(n) == node_get(n, "nearest_grocery_time")

AfterTravelTime == pc \in {"average_travel_time", "done"}
Returned == pc \in {"average_travel_time", "done", "raised"}

\* C1: with at least two grocery nodes, every grocery node's nearest_grocery_time
\* after add_grocery_travel_time (either implementation) is the travel time to the
\* nearest other grocery node, and is never zero.
C1_NearestOtherGrocery ==
    (AfterTravelTime /\ Cardinality(grocery_node_ids) >= 2) =>
        \A g \in grocery_node_ids :
            /\ nearest_grocery_time(g) = fmin({PathCost(g, h) : h \in grocery_node_ids \ {g}})
            /\ nearest_grocery_time(g) # Num(0, 1)

\* C2: with no grocery node, add_grocery_travel_time (either implementation) raises
\* nothing, warns, and leaves nearest_grocery_time missing on every node.
C2_NoGroceryShortCircuit ==
    (Returned /\ grocery_node_ids = {}) =>
        /\ raised = "none"
        /\ NoGroceryWarning \in warnings
        /\ \A n \in NodeIds : nearest_grocery_time(n) = nan

MinToGrocery(n) ==
    LET costs == {PathCost(n, g) : g \in grocery_node_ids}
    IN  IF \E c \in costs : IsNum(c) THEN fmin(costs) ELSE inf

\* C3 as claimed: after add_grocery_travel_time (the igraph implementation the claim
\* cites) every node without the grocery flag holds the minimum over the grocery
\* nodes of the directed path cost to them, infinite exactly when none is reachable.
C3_AsClaimed ==
    (Returned /\ igraph) =>
        \A n \in NodeIds \ grocery_node_ids :
            /\ nearest_grocery_time(n) = MinToGrocery(n)
            /\ (nearest_grocery_time(n) = inf <=>
                    \A g \in grocery_node_ids : PathCost(n, g) = inf)

\* C3 amended: the same, on a graph that has at least one grocery node.
C3_NonGroceryMinimum ==
    (Returned /\ igraph /\ grocery_node_ids # {}) =>
        \A n \in NodeIds \ grocery_node_ids :
            /\ nearest_grocery_time(n) = MinToGrocery(n)
            /\ (nearest_grocery_time(n) = inf <=>
                    \A g \in grocery_node_ids : PathCost(n, g) = inf)

C3_Witness ==
    /\ AfterTravelTime /\ igraph /\ directed
    /\ \E n \in NodeIds \ grocery_node_ids, m \in NodeIds \ grocery_node_ids :
          /\ nearest_grocery_time(n) = inf
          /\ IsNum(nearest_grocery_time(m))
          /\ \E g \in grocery_node_ids : IsNum(PathCost(g, n))

Scenario5Expected == <<Num(0, 1), Num(2, 1), Num(5, 1), Num(5, 1), Num(6, 1)>>

IsScenario5 == edges \in {Scenario5, Scenario5Undirected} /\ grocery_node_ids = {1}

\* C4: with exactly one grocery node A, A keeps 0 and every other node gets its
\* shortest travel time to A; on the 5-node network the result is 0, 2, 5, 5, 6.
C4_SingleGrocery ==
    /\ (AfterTravelTime /\ igraph /\ Cardinality(grocery_node_ids) = 1) =>
          \A a \in grocery_node_ids :
              /\ nearest_grocery_time(a) = Num(0, 1)
              /\ \A n \in NodeIds : nearest_grocery_time(n) = PathCost(n, a)
    /\ (AfterTravelTime /\ IsScenario5) =>
          \A n \in NodeIds : nearest_grocery_time(n) = Scenario5Expected[n]

C4_Witness == AfterTravelTime /\ igraph /\ IsScenario5 /\ directed

\* the arithmetic mean of two node values, stated on its own
IsMeanOf(x, a, b) ==
    IF a = nan \/ b = nan THEN x = nan
    ELSE IF a = inf \/ b = inf THEN x = inf
    ELSE IsNum(x) /\ 2 * x.n * a.d * b.d = x.d * (a.n * b.d + b.n * a.d)

\* C7: add_average_to_edge sets the attribute of every edge to the mean of its two
\* endpoints' values, undefined when either is undefined, and the same for the edge
\* from u to v as for an edge from v to u.
C7_EdgeAverage ==
    pc = "done" =>
        /\ \A e \in edges :
              IsMeanOf(e.nearest_grocery_time,
                       nearest_grocery_time(e.u), nearest_grocery_time(e.v))
        /\ \A e \in edges, f \in edges :
              (e.u = f.v /\ e.v = f.u) => e.nearest_grocery_time = f.nearest_grocery_time

C7_Witness ==
    /\ pc = "done"
    /\ \E e \in edges, f \in edges, g \in edges :
          /\ e.nearest_grocery_time = nan
          /\ IsNum(nearest_grocery_time(e.v))
          /\ IsNum(f.nearest_grocery_time) /\ f.nearest_grocery_time.d = 2
          /\ g.u = f.v /\ g.v = f.u
          /\ nearest_grocery_time(f.u) # nearest_grocery_time(f.v)

AfterReconcile == pc \in {"merge_highway_dummies_to_nodes", "done"}

\* C5: after reconcile_nodes_edges, and in the tables data_from_placename
\* returns, the source u and the target v of every retained edge are retained
\* node identifiers, whatever the node and edge tables were.
C5_NoDanglingEdge ==
    AfterReconcile => \A e \in edges : e.u \in NodeIds /\ e.v \in NodeIds

C5_Witness ==
    /\ pc = "done"
    /\ Cardinality(NodeIds) = 2
    /\ \E e \in edges, f \in edges : e.u = f.v /\ e.v = f.u /\ e.u # e.v
    /\ \A n \in NodeIds : IsNum(nodes[n].hwy[HwyCol("residential")])

\* C6: after reconcile_nodes_edges every retained node is an endpoint of at
\* least one retained edge (every node of a fetched street network is the end
\* of a road segment, so none was isolated before cleaning).
C6_NoOrphanNode ==
    AfterReconcile => \A n \in NodeIds : \E e \in edges : e.u = n \/ e.v = n

AfterRegionFlags ==
    pc \in {"merge_svi", "clean_edges", "clean_nodes", "reconcile_nodes_edges",
            "merge_highway_dummies_to_nodes", "done"}

\* C8: an edge is flagged aoa if and only if both of its endpoints are nodes
\* flagged aoa, and on every node and every edge buffer is the negation of aoa.
C8_RegionFlags ==
    AfterRegionFlags =>
        /\ \A e \in edges :
              (e.u \in NodeIds /\ e.v \in NodeIds) =>
                  (e.aoa <=> (nodes[e.u].aoa /\ nodes[e.v].aoa))
        /\ \A e \in edges : e.buffer = ~e.aoa
        /\ \A n \in NodeIds : nodes[n].buffer = ~nodes[n].aoa

C8_Witness ==
    /\ pc = "merge_svi"
    /\ \E e \in edges, f \in edges :
          /\ nodes[e.u].aoa /\ ~nodes[e.v].aoa /\ ~e.aoa /\ e.buffer
          /\ f.aoa /\ ~f.buffer

\* C9: when the equal-area join of merge_svi fails, a warning is emitted,
\* nothing is raised, and the nodes returned carry the density of the tract
\* each of them lies within.
C9_FallbackJoin ==
    (pc = "clean_edges" /\ FallbackWarning \in warnings) =>
        /\ raised = "none"
        /\ "density" \in node_cols
        /\ \A n \in NodeIds :
              nodes[n].density =
                  IF nodes[n].tract \in DOMAIN svi THEN svi[nodes[n].tract].density ELSE nan

IsNegative(x) == IsNum(x) /\ x.n < 0

\* C10: a demographic field whose source value is the sentinel is read as the
\* missing-value marker: no tract read by read_svi holds the sentinel or a
\* negative density, and no node of the final table holds a negative density.
C10_SentinelIsMissing ==
    /\ \A t \in DOMAIN svi :
          svi[t].E_TOTPOP # Num(Sentinel, 1) /\ ~IsNegative(svi[t].density)
    /\ pc = "done" => \A n \in NodeIds : ~IsNegative(nodes[n].density)

NoQualifyingRoads ==
    NoStreetsWarning \in warnings \/ (raised = "InsufficientResponseError" /\ edge_cols = {})

\* C11: on a region without a qualifying road the run raises nothing:
\* road_network_from_polygon answers with its empty-network value and
\* data_from_placename goes on to return empty node and edge tables.
C11_EmptyNetwork ==
    NoQualifyingRoads => (raised = "none" /\ (pc = "done" => (NodeIds = {} /\ edges = {})))

Missing(c) == Cardinality({e \in edges : e[c] = nan})

\* C12: clean_edges drops the edge columns missing in more than 5% of the rows
\* and keeps those missing in at most 5% of the rows, whatever the row count.
C12_FivePercentRule ==
    [][pc = "clean_edges" =>
         \A c \in edge_cols \cap EdgeValueCols :
             (c \in edge_cols') <=> (20 * Missing(c) <= Cardinality(edges))]_vars

AfterCleanEdges ==
    pc \in {"clean_nodes", "reconcile_nodes_edges", "merge_highway_dummies_to_nodes", "done"}

HighwayCols == {HwyCol("primary"), HwyCol("residential")}

\* C13: after clean_edges every edge has, for each highway category occurring
\* in the table, an indicator column that is 1 when the category is among the
\* edge's classification and 0 otherwise; there is no raw highway column and
\* no row with a missing value.
C13_HighwayDummies ==
    AfterCleanEdges =>
        /\ "highway" \notin edge_cols
        /\ \A e \in edges :
              /\ DOMAIN e.hwy = edge_cols \cap HighwayCols
              /\ \A c \in {"primary", "residential"} :
                    HwyCol(c) \in DOMAIN e.hwy =>
                        e.hwy[HwyCol(c)] = (IF c \in e.highway THEN 1 ELSE 0)
              /\ \A c \in e.highway : HwyCol(c) \in DOMAIN e.hwy
              /\ \A c \in edge_cols \cap EdgeValueCols : e[c] # nan
        /\ pc = "clean_nodes" =>
              edge_cols \cap HighwayCols = {HwyCol(c) : c \in UNION {e.highway : e \in edges}}

C13_Witness ==
    /\ pc = "clean_nodes"
    /\ "lanes" \in edge_cols
    /\ edge_cols \cap HighwayCols = HighwayCols
    /\ \E e \in edges, f \in edges :
          /\ e.hwy[HwyCol("primary")] = 1 /\ e.hwy[HwyCol("residential")] = 0
          /\ f.hwy[HwyCol("primary")] = 0 /\ f.hwy[HwyCol("residential")] = 1

JoinArtifacts == {"lat", "lon", "index_right", "highway", "ref"}

\* C14: clean_nodes returns exactly the rows that hold neither a missing nor an
\* infinite value in a column other than lat, lon, index_right, highway and ref,
\* unchanged, and removes those five columns.
C14_CleanNodes ==
    [][pc = "clean_nodes" =>
         /\ node_cols' = node_cols \ JoinArtifacts
         /\ DOMAIN nodes' =
                {n \in NodeIds :
                    \A c \in (node_cols \ JoinArtifacts) \cap NodeValueCols :
                        nodes[n][c] # nan /\ nodes[n][c] # inf}
         /\ \A n \in DOMAIN nodes' : nodes'[n] = nodes[n]]_vars

C14_Witness ==
    /\ pc = "reconcile_nodes_edges"
    /\ "ref" \notin node_cols
    /\ NodeIds # {} /\ NodeIds # 1..MaxNodes
    /\ \A n \in NodeIds : nodes[n].ref = nan /\ IsNum(nodes[n].nearest_grocery_time)

\* C15: after merge_highway_dummies_to_nodes every node holds, for every highway
\* indicator column, the sum of that column over the edges whose source is the
\* node (edges that enter it add nothing).
C15_SumOfLeavingEdges ==
    pc = "done" =>
        \A n \in NodeIds :
            /\ DOMAIN nodes[n].hwy = edge_cols \cap HighwayCols
            /\ \A h \in DOMAIN nodes[n].hwy :
                  nodes[n].hwy[h] = Num(SumOver({e \in edges : e.u = n}, h), 1)

IsNearestNode(n, g) == \A m \in NodeIds : distance(n, g) <= distance(m, g)

\* C16: after merge_grocery a node's grocery flag is true if and only if the
\* node is the nearest node to at least one grocery POI; a node that lies by a
\* POI and is not the nearest node of any POI is flagged false.
C16_NearestNodeFlag ==
    pc = "add_grocery_travel_time" =>
        \A n \in NodeIds :
            nodes[n].grocery <=> \E g \in args.groceries : IsNearestNode(n, g)

C16_Witness ==
    /\ pc = "add_grocery_travel_time"
    /\ \E n \in NodeIds, m \in NodeIds, g \in args.groceries :
          /\ distance(n, g) = 1 /\ ~nodes[n].grocery
          /\ distance(m, g) = 0 /\ nodes[m].grocery
    /\ \E n \in NodeIds, m \in NodeIds, g \in args.groceries :
          n # m /\ distance(n, g) = 1 /\ distance(m, g) = 1 /\ nodes[n].grocery /\ nodes[m].grocery

RECURSIVE Occurrences(_, _, _)
Occurrences(tags, i, key) ==
    IF i = 0 THEN <<>>
    ELSE IF key \in DOMAIN tags[i]
         THEN Append(Occurrences(tags, i - 1, key), tags[i][key].v[1])
         ELSE Occurrences(tags, i - 1, key)

Merged(tags, key, many) ==
    LET values == Occurrences(tags, Len(tags), key)
    IN  IF Len(values) = 1 THEN Scalar(values[1]) ELSE [kind |-> many, v |-> values]

\* C17: for a list of predicate dicts the hashable object of
\* _make_hashable_tags_helper has one entry per distinct key, holding the
\* key's single value when it occurs once and all its values in order of
\* occurrence when it occurs several times, and the dict rebuilt from it has
\* the same keys with the same values.
C17_MergedTags ==
    (args # <<>> /\ "tags" \in DOMAIN args /\ args.tags.kind = "list" /\ result # <<>>) =>
        LET tags == args.tags.list
            keys == UNION {DOMAIN tags[i] : i \in 1..Len(tags)}
        IN  /\ raised = "none"
            /\ result.hashable_tags = {<<key, Merged(tags, key, "tuple")>> : key \in keys}
            /\ pc = "features_from_place" =>
                  /\ DOMAIN result.tags = keys
                  /\ \A key \in keys : result.tags[key] = Merged(tags, key, "list")

C17_Witness ==
    /\ pc = "features_from_place"
    /\ args.tags.kind = "list"
    /\ Len(args.tags.list) = MaxTags
    /\ DOMAIN result.tags = Keys
    /\ result.tags["amenity"].kind = "scalar"
    /\ result.tags["shop"] = [kind |-> "list", v |-> <<"general", "convenience">>]

Supplied == (args.lat.some /\ args.lon.some) \/ args.point.some

\* C18: create_circular_polygon raises the invalid-input error exactly when
\* neither both of lat and lon nor a point is supplied.
C18_InvalidInput ==
    (args # <<>> /\ "lat" \in DOMAIN args /\ pc # "create_circular_polygon") =>
        /\ ~Supplied => (pc = "raised" /\ raised = "ValueError")
        /\ Supplied => (pc = "buffer" /\ raised = "none")

C18_Witness ==
    /\ pc = "raised"
    /\ "lat" \in DOMAIN args
    /\ args.lat.some
    /\ ~args.lon.some
    /\ ~args.point.some
    /\ raised = "ValueError"

Count(seq, x) == Cardinality({j \in 1..Len(seq) : seq[j] = x})

Range(seq) == {seq[j] : j \in 1..Len(seq)}

\* C19: batch_process_cities never stops on a failing place: at its return
\* every place of the list has been attempted, in list order, each place is
\* in exactly one of the successful and failed lists, and the places mapping
\* holds exactly the successful places.
C19_EveryPlaceSettled ==
    /\ raised = "none"
    /\ pc = "returned" =>
          /\ Range(batch.attempts) = Range(batch.placenames)
          /\ \A j \in 1..Len(batch.placenames) :
                \E k \in 1..Len(batch.attempts) :
                    /\ batch.attempts[k] = batch.placenames[j]
                    /\ k >= j
          /\ \A j, k \in 1..Len(batch.placenames) :
                (j < k /\ batch.placenames[j] # batch.placenames[k]) =>
                    \E a, b \in 1..Len(batch.attempts) :
                        a < b /\ batch.attempts[a] = batch.placenames[j]
                              /\ batch.attempts[b] = batch.placenames[k]
          /\ \A x \in Names :
                /\ Count(result.successful, x) + Count(result.failed, x) = Count(batch.placenames, x)
                /\ ~(x \in Range(result.successful) /\ x \in Range(result.failed))
          /\ result.places = Range(result.successful)

C19_Witness ==
    /\ pc = "returned"
    /\ Len(batch.placenames) = MaxPlaces
    /\ result.failed # <<>>
    /\ result.successful # <<>>
    /\ result.failed[1] = batch.placenames[1]
    /\ batch.cached[result.failed[1]] = "other_object"

\* C20: a place for which the retrieval finds no matching feature is
\* attempted exactly once and recorded as failed, and the batch goes on.
C20_NoRetryOnEmptyResult ==
    pc = "returned" =>
        \A x \in Range(batch.placenames) :
            (batch.world[x] = "InsufficientResponseError" /\ batch.cached[x] = "miss") =>
                /\ Count(batch.attempts, x) = Count(batch.placenames, x)
                /\ x \in Range(result.failed)

\* C26: the two implementations behind the igraph flag agree: on the same
\* graph and grocery flags both raise or neither does, and both leave the
\* same nearest_grocery_time on every node.
C26_SameTravelTime ==
    pc = "add_grocery_travel_time" =>
        LET with_igraph == add_grocery_travel_time(TRUE)
            with_networkx == add_grocery_travel_time(FALSE)
        IN  /\ with_igraph.exc = with_networkx.exc
            /\ with_igraph.warned = with_networkx.warned
            /\ set_node_attributes(with_igraph.set, "nearest_grocery_time")
                   = set_node_attributes(with_networkx.set, "nearest_grocery_time")

\* C27: reconcile_nodes_edges is idempotent: applied to the tables it has
\* just returned it returns the same node set and the same edge set.
C27_ReconcileIdempotent ==
    pc = "merge_highway_dummies_to_nodes" =>
        LET again == reconcile_nodes_edges(nodes, edges)
        IN  DOMAIN again.nodes = NodeIds /\ again.edges = edges

\* C29: in the node table data_from_placename returns every node has a
\* number, not a missing value, in every highway indicator column.
C29_HighwayColumnsDefined ==
    pc = "done" => \A n \in NodeIds : \A h \in DOMAIN nodes[n].hwy : IsNum(nodes[n].hwy[h])

\* C24: a place whose retrieval times out is attempted at most 3 times, the
\* batch sleeps 60 s after its first and 120 s after its second attempt and
\* not after the third, and the place is recorded as failed.
C24_TimeoutBackoff ==
    pc = "returned" =>
        \A x \in Range(batch.placenames) :
            (batch.world[x] = "ConnectTimeout" /\ batch.cached[x] = "miss") =>
                /\ Count(batch.attempts, x) = retries * Count(batch.placenames, x)
                /\ Count(batch.sleeps, <<x, retry_delay>>) = Count(batch.placenames, x)
                /\ Count(batch.sleeps, <<x, 2 * retry_delay>>) = Count(batch.placenames, x)
                /\ Count(batch.sleeps, <<x, 3 * retry_delay>>) = 0
                /\ x \in Range(result.failed)

\* C25: a place whose geocoding and retrievals all succeed is attempted
\* once, its result is stored under its name and it is listed as successful.
C25_SuccessOnFirstAttempt ==
    pc = "returned" =>
        \A x \in Range(batch.placenames) :
            (batch.world[x] = "features" /\ batch.cached[x] # "other_object") =>
                /\ Count(batch.attempts, x) = Count(batch.placenames, x)
                /\ x \in result.places
                /\ x \in Range(result.successful)
                /\ x \notin Range(result.failed)

\* C28: no edge of the returned tables carries an infinite or a missing
\* nearest_grocery_time: an edge whose average is infinite has an endpoint
\* whose value is infinite, clean_nodes removes that node, and
\* reconcile_nodes_edges removes the edge.
C28_EdgeTravelTimeFinite ==
    /\ pc = "clean_edges" =>
          \A e \in edges :
              e.nearest_grocery_time = inf =>
                  (node_get(e.u, "nearest_grocery_time") = inf
                      \/ node_get(e.v, "nearest_grocery_time") = inf)
    /\ pc = "reconcile_nodes_edges" =>
          \A e \in edges :
              e.nearest_grocery_time = inf => (e.u \notin NodeIds \/ e.v \notin NodeIds)
    /\ AfterReconcile =>
          \A e \in edges :
              "nearest_grocery_time" \in edge_cols => IsNum(e.nearest_grocery_time)

C28_Witness ==
    /\ pc = "reconcile_nodes_edges"
    /\ "nearest_grocery_time" \in edge_cols
    /\ \E e \in edges, f \in edges :
          /\ e.nearest_grocery_time = inf
          /\ e.u \notin NodeIds
          /\ e.v \in NodeIds
          /\ IsNum(f.nearest_grocery_time)
          /\ f.u = e.v

\* C22: whatever radius and buffer data_from_placename is called with, the
\* area of analysis lies within the query scope built round the same centre.
C22_AoaWithinScope ==
    pc = "fetch_groceries" => within(result.area_of_analysis, result.query_scope)

\* C21: an enrichment step leaves the object it was handed as it was and
\* returns another object.
C21_InputUnchanged ==
    pc = "returned" =>
        /\ ~result.is_argument
        /\ nodes = args.nodes
        /\ edges = args.edges
        /\ node_cols = args.node_cols
        /\ edge_cols = args.edge_cols

\* C23: once a call for a key has returned, every later call with that key
\* returns the same result and does not run the wrapped function again.
C23_SameResultForKey ==
    [][\A key \in CacheKeys :
          (cache.returned[key] # "none" /\ cache'.calls # cache.calls /\ args'.key = key) =>
              /\ result'.exc = "none"
              /\ result'.value = cache.returned[key]
              /\ cache'.invocations[key] = cache.invocations[key]]_vars

C23_Witness ==
    /\ cache.calls = MaxCalls
    /\ cache.invocations[args.key] = 1
    /\ cache.returned[args.key] = result.value
    /\ args.outcome \in Results \ {result.value}
    /\ \E other \in CacheKeys \ {args.key} : cache.invocations[other] = 0

\* C30: when the wrapped function raises, the caller gets the error and the
\* cache files stay as they were, so the next call with that key runs the
\* function again.
C30_FailureNotCached ==
    [][(cache'.calls # cache.calls /\ cache.files[args'.key] \notin Results
            /\ args'.outcome = "raise") =>
          /\ result'.exc = "Exception"
          /\ cache'.files = cache.files
          /\ cache'.invocations[args'.key] = cache.invocations[args'.key] + 1
          /\ disk_cache(cache'.files, args'.key, "r1").invoked]_vars

C30_Witness ==
    /\ cache.calls >= 2
    /\ args.outcome = "raise"
    /\ result.exc = "Exception"
    /\ cache.invocations[args.key] = cache.calls
    /\ cache.files[args.key] = "missing"

====
